---- MODULE Spec2Model ----
(***************************************************************************)
(* Line lifecycle tracking and survival statistics of wbhob/halflife.      *)
(*                                                                         *)
(* The repository ships two programs with the same job:                    *)
(*   program = "main"      src/main.go            (LineHistory, events,    *)
(*                                                 changeFrequency)        *)
(*   program = "validate"  src/unnamed/part_001   (CodeLine, timeline,     *)
(*                                                 survival curve)         *)
(* Both replay the commits of a repository, keep a map from an identity    *)
(* key to a per-line record and compute statistics from the map.           *)
(*                                                                         *)
(* Time is counted in whole days: a time.Time is a natural number of days, *)
(* so that Sub(..).Hours()/24 is the difference of two numbers.            *)
(***************************************************************************)
EXTENDS Integers, Sequences, FiniteSets, TLC

VARIABLES
    program,         \* which of the two programs runs
    filePattern,     \* the file pattern argument
    validateMode,    \* the -validate flag (part_001 only)
    pc,              \* position of analyzeRepository
    commits,         \* Author.When of the commits taken from the log so far
    chunkNo,         \* chunks applied so far
    codeLines,       \* part_001: map key -> CodeLine
    timeline,        \* part_001: []TimelineEvent
    lineHistories,   \* main.go: map key -> LineHistory
    changeFrequency, \* main.go: map[string]int
    now,             \* time.Now() of the statistics, nil before them
    result,          \* what analyzeRepository returned: (value, error)
    rerun,           \* what a second run over the same commits returned
    unreadable,      \* the commits (by position in commits) that were skipped
                     \* because their tree or patch could not be read
    lineKeys         \* the identity keys built by IdentifyLine, each with the
                     \* path and the line it was built from

vars == <<program, filePattern, validateMode, pc, commits, chunkNo, codeLines,
          timeline, lineHistories, changeFrequency, now, result, rerun,
          unreadable, lineKeys>>

----------------------------------------------------------------------------
(* Bounds of the model *)

MaxCommits == 3
MaxChunks == 2
MaxChunkLines == 2
MaxTime == 2
MaxKeys == 2

----------------------------------------------------------------------------
(* package strings *)

IsSpace(c) == c \in {" ", "\t", "\r", "\n"}

RECURSIVE TrimLeft(_)
TrimLeft(s) ==
    IF Len(s) = 0 THEN s
    ELSE IF IsSpace(SubSeq(s, 1, 1)) THEN TrimLeft(SubSeq(s, 2, Len(s)))
    ELSE s

RECURSIVE TrimRight(_)
TrimRight(s) ==
    IF Len(s) = 0 THEN s
    ELSE IF IsSpace(SubSeq(s, Len(s), Len(s))) THEN TrimRight(SubSeq(s, 1, Len(s) - 1))
    ELSE s

TrimSpace(s) == TrimRight(TrimLeft(s))

HasPrefix(s, prefix) ==
    /\ Len(s) >= Len(prefix)
    /\ SubSeq(s, 1, Len(prefix)) = prefix

HasSuffix(s, suffix) ==
    /\ Len(s) >= Len(suffix)
    /\ SubSeq(s, Len(s) - Len(suffix) + 1, Len(s)) = suffix

TrimPrefix(s, prefix) ==
    IF HasPrefix(s, prefix) THEN SubSeq(s, Len(prefix) + 1, Len(s)) ELSE s

(* strings.Split(s, sep) for a separator of one character *)
RECURSIVE SplitFrom(_, _, _)
SplitFrom(s, sep, cur) ==
    IF Len(s) = 0 THEN <<cur>>
    ELSE IF SubSeq(s, 1, 1) = sep
         THEN <<cur>> \o SplitFrom(SubSeq(s, 2, Len(s)), sep, "")
         ELSE SplitFrom(SubSeq(s, 2, Len(s)), sep, cur \o SubSeq(s, 1, 1))

Split(s, sep) == SplitFrom(s, sep, "")

(* strings.Join *)
RECURSIVE Join(_, _)
Join(elems, sep) ==
    IF Len(elems) = 0 THEN ""
    ELSE IF Len(elems) = 1 THEN elems[1]
    ELSE elems[1] \o sep \o Join(Tail(elems), sep)

(* filepath.Base for a slash-separated path without trailing slashes *)
Base(path) ==
    LET parts == Split(path, "/")
    IN  IF Len(path) = 0 THEN "." ELSE parts[Len(parts)]

(* filepath.Match for a pattern that holds no metacharacter *)
Match(pattern, name) == pattern = name

----------------------------------------------------------------------------
(* The inputs: what the repository (go-git) hands to analyzeRepository *)

Paths == {"m.go", "d/n"}
PathOrder == <<"d/n", "m.go">>
RawLines == {"x", " "}
Patterns == {"*", "*.go", "n"}
Times == 0 .. MaxTime

SeqsUpTo(S, n) == UNION {[1 .. k -> S] : k \in 1 .. n}

(* chunk.Content() and f.Contents(): lines joined by newlines *)
Contents == {Join(ls, "\n") : ls \in SeqsUpTo(RawLines, MaxChunkLines)}

(* a *T is a sequence of at most one T; nil is the empty one *)
Nil == <<>>
Ptr(v) == <<v>>
Deref(p) == p[1]

(* (from, to) of a FilePatch *)
FilePairs == (({Nil} \cup {Ptr(p) : p \in Paths}) \X ({Nil} \cup {Ptr(p) : p \in Paths}))

(* a tree: for every path, in the order of Files(), nothing, an unreadable *)
(* blob, or a blob with contents                                           *)
Blobs == {[Present |-> FALSE, Readable |-> FALSE, Contents |-> ""]}
         \cup {[Present |-> TRUE, Readable |-> FALSE, Contents |-> ""]}
         \cup {[Present |-> TRUE, Readable |-> TRUE, Contents |-> c] : c \in Contents}
Trees == [1 .. Len(PathOrder) -> Blobs]


Put(m, k, v) == [x \in DOMAIN m \cup {k} |-> IF x = k THEN v ELSE m[x]]
EmptyMap == [x \in {} |-> 0]

----------------------------------------------------------------------------
(* part_001: analyzeRepository, the replay *)

matchesPattern(filename, pattern) ==
    IF pattern = "*" THEN TRUE
    ELSE IF HasPrefix(pattern, "*.")
         THEN HasSuffix(filename, TrimPrefix(pattern, "*"))
         ELSE Match(pattern, Base(filename))

(* fmt.Sprintf("%s:%s", path, line) *)
CodeLineKey(path, line) == path \o ":" \o line

NewCodeLine(path, line, when, hash) ==
    [Content |-> line, File |-> path, CreatedAt |-> when, DeletedAt |-> Nil,
     CommitHash |-> hash, LastSeen |-> when]

countDeletedLines(lines) == Cardinality({k \in DOMAIN lines : lines[k].DeletedAt # Nil})

TimelineCreate(path, line, when, hash, lines) ==
    [Time |-> when, CommitHash |-> hash, Action |-> "create", File |-> path,
     Line |-> line, LinesSoFar |-> Cardinality(DOMAIN lines), DeletedSoFar |-> 0]

TimelineDelete(path, line, when, hash, lines) ==
    [Time |-> when, CommitHash |-> hash, Action |-> "delete", File |-> path,
     Line |-> line, LinesSoFar |-> Cardinality(DOMAIN lines),
     DeletedSoFar |-> countDeletedLines(lines)]

(* st = [codeLines, timeline]; c = [Path, When, Hash, Validate] *)

(* one line of a file of the first commit's tree *)
TreeLine(st, c, line) ==
    IF TrimSpace(line) = "" THEN st
    ELSE LET key == CodeLineKey(c.Path, line)
             cl == Put(st.codeLines, key, NewCodeLine(c.Path, line, c.When, c.Hash))
         IN  [codeLines |-> cl,
              timeline |-> IF c.Validate
                           THEN Append(st.timeline, TimelineCreate(c.Path, line, c.When, c.Hash, cl))
                           ELSE st.timeline]

RECURSIVE TreeLines(_, _, _)
TreeLines(st, c, lines) ==
    IF Len(lines) = 0 THEN st
    ELSE TreeLines(TreeLine(st, c, Head(lines)), c, Tail(lines))

(* the callback of tree.Files().ForEach over the files i.. of the tree *)
RECURSIVE TreeFiles(_, _, _, _, _)
TreeFiles(st, c, pattern, tree, i) ==
    IF i > Len(tree) THEN st
    ELSE LET f == tree[i]
             name == PathOrder[i]
             after == IF ~f.Present THEN st
                      ELSE IF ~matchesPattern(name, pattern) THEN st
                      ELSE IF ~f.Readable THEN st
                      ELSE TreeLines(st, [c EXCEPT !.Path = name], Split(f.Contents, "\n"))
         IN  TreeFiles(after, c, pattern, tree, i + 1)

(* AddLine with the test for the empty line made without trimming *)
AddLineUntrimmed(st, c, line) ==
    IF line = "" THEN st
    ELSE LET key == CodeLineKey(c.Path, line)
         IN  IF key \notin DOMAIN st.codeLines
             THEN LET cl == Put(st.codeLines, key, NewCodeLine(c.Path, line, c.When, c.Hash))
                  IN  [codeLines |-> cl,
                       timeline |-> IF c.Validate
                                    THEN Append(st.timeline, TimelineCreate(c.Path, line, c.When, c.Hash, cl))
                                    ELSE st.timeline]
             ELSE [st EXCEPT !.codeLines[key].LastSeen = c.When]

(* one line of a diff.Add chunk *)
AddLine(st, c, line) ==
    IF TrimSpace(line) = "" THEN st
    ELSE LET key == CodeLineKey(c.Path, line)
         IN  IF key \notin DOMAIN st.codeLines
             THEN LET cl == Put(st.codeLines, key, NewCodeLine(c.Path, line, c.When, c.Hash))
                  IN  [codeLines |-> cl,
                       timeline |-> IF c.Validate
                                    THEN Append(st.timeline, TimelineCreate(c.Path, line, c.When, c.Hash, cl))
                                    ELSE st.timeline]
             ELSE [st EXCEPT !.codeLines[key].LastSeen = c.When]

RECURSIVE AddLines(_, _, _)
AddLines(st, c, lines) ==
    IF Len(lines) = 0 THEN st
    ELSE AddLines(AddLine(st, c, Head(lines)), c, Tail(lines))

(* one line of a diff.Delete chunk *)
DeleteLine(st, c, line) ==
    IF TrimSpace(line) = "" THEN st
    ELSE LET key == CodeLineKey(c.Path, line)
         IN  IF key \in DOMAIN st.codeLines
             THEN LET cl == [st.codeLines EXCEPT ![key].DeletedAt = Ptr(c.When)]
                  IN  [codeLines |-> cl,
                       timeline |-> IF c.Validate
                                    THEN Append(st.timeline, TimelineDelete(c.Path, line, c.When, c.Hash, cl))
                                    ELSE st.timeline]
             ELSE st

RECURSIVE DeleteLines(_, _, _)
DeleteLines(st, c, lines) ==
    IF Len(lines) = 0 THEN st
    ELSE DeleteLines(DeleteLine(st, c, Head(lines)), c, Tail(lines))

(* the path a FilePatch is filed under; nil when it has neither side *)
PatchPath(from, to) ==
    IF to = Nil /\ from = Nil THEN Nil
    ELSE IF to # Nil THEN to ELSE from

(* the commit being processed *)
When == commits[Len(commits)]
Hash == Len(commits)
Ctx(path) == [Path |-> path, When |-> When, Hash |-> Hash, Validate |-> validateMode]
St == [codeLines |-> codeLines, timeline |-> timeline]

UnchangedMain == UNCHANGED <<lineHistories, changeFrequency>>
UnchangedArgs == UNCHANGED <<program, filePattern, validateMode>>

(* what the first commit makes of codeLines and timeline *)
FirstCommitApply(when, tree, readable) ==
    LET c == [Path |-> "", When |-> when, Hash |-> 1, Validate |-> validateMode]
    IN  IF readable THEN TreeFiles(St, c, filePattern, tree, 1) ELSE St

(* i == 0: the tree of the first commit *)
FirstCommit(when, tree, readable) ==
    /\ program = "validate"
    /\ pc = "log"
    /\ Len(commits) = 0
    /\ commits' = Append(commits, when)
    /\ codeLines' = FirstCommitApply(when, tree, readable).codeLines
    /\ timeline' = FirstCommitApply(when, tree, readable).timeline
    /\ UNCHANGED <<pc, chunkNo, now, result, rerun, lineKeys>>
    /\ unreadable' = IF readable THEN unreadable ELSE unreadable \cup {Len(commits) + 1}
    /\ UnchangedMain /\ UnchangedArgs

(* NextCommit returning the error of commit.Patch instead of going on *)
NextCommitAbort(when, readable) ==
    /\ program = "validate"
    /\ pc = "log"
    /\ Len(commits) > 0
    /\ Len(commits) < MaxCommits
    /\ commits' = Append(commits, when)
    /\ pc' = IF readable THEN "patch" ELSE "failed"
    /\ result' = IF readable THEN result ELSE [Value |-> Nil, Err |-> Ptr("error getting patch")]
    /\ unreadable' = IF readable THEN unreadable ELSE unreadable \cup {Len(commits) + 1}
    /\ UNCHANGED <<chunkNo, codeLines, timeline, now, rerun, lineKeys>>
    /\ UnchangedMain /\ UnchangedArgs

(* i > 0: commit.Patch(parent) *)
NextCommit(when, readable) ==
    /\ program = "validate"
    /\ pc = "log"
    /\ Len(commits) > 0
    /\ Len(commits) < MaxCommits
    /\ commits' = Append(commits, when)
    /\ pc' = IF readable THEN "patch" ELSE "log"
    /\ UNCHANGED <<chunkNo, codeLines, timeline, now, result, rerun, lineKeys>>
    /\ unreadable' = IF readable THEN unreadable ELSE unreadable \cup {Len(commits) + 1}
    /\ UnchangedMain /\ UnchangedArgs

(* what one chunk of one FilePatch makes of codeLines and timeline *)
ValidateApply(type, files, content) ==
    LET path == PatchPath(files[1], files[2])
        skip == path = Nil \/ ~matchesPattern(Deref(path), filePattern)
        lines == Split(content, "\n")
    IN  IF skip THEN St
        ELSE IF type = "Add" THEN AddLines(St, Ctx(Deref(path)), lines)
        ELSE IF type = "Delete" THEN DeleteLines(St, Ctx(Deref(path)), lines)
        ELSE St

(* one chunk of one FilePatch of the patch *)
ValidateChunk(type, files, content) ==
    /\ program = "validate"
    /\ pc = "patch"
    /\ chunkNo < MaxChunks
    /\ chunkNo' = chunkNo + 1
    /\ codeLines' = ValidateApply(type, files, content).codeLines
    /\ timeline' = ValidateApply(type, files, content).timeline
    /\ UNCHANGED <<pc, commits, now, result, rerun, unreadable, lineKeys>>
    /\ UnchangedMain /\ UnchangedArgs

AddChunk(files, content) == ValidateChunk("Add", files, content)
DeleteChunk(files, content) == ValidateChunk("Delete", files, content)
EqualChunk(files, content) == ValidateChunk("Equal", files, content)

(* the end of the loops over the FilePatches and their chunks *)
EndPatch ==
    /\ program = "validate"
    /\ pc = "patch"
    /\ pc' = "log"
    /\ UNCHANGED <<commits, chunkNo, codeLines, timeline, now, result, rerun, unreadable, lineKeys>>
    /\ UnchangedMain /\ UnchangedArgs

----------------------------------------------------------------------------
(* part_001: analyzeRepository, the statistics *)

timePoints == 100

(* Ages and lifetimes of the returned statistics are counted in units of  *)
(* 1/timePoints of a day, in which every sampled time point is a whole    *)
(* number.                                                                *)
Days(d) == d * timePoints

NoResult == [Value |-> Nil, Err |-> Nil]
Returned(v) == [Value |-> Ptr(v), Err |-> Nil]
Failed(msg) == [Value |-> Nil, Err |-> Ptr(msg)]

Orders(m) == {o \in [1 .. Cardinality(DOMAIN m) -> DOMAIN m] :
                \A i, j \in DOMAIN o : i # j => o[i] # o[j]}

Sorted(s) == SortSeq(s, LAMBDA a, b : a < b)

(* the body of "for _, line := range codeLines" *)
ScanLine(acc, line, today) ==
    LET counted == [acc EXCEPT !.totalLines = @ + 1]
    IN  IF line.DeletedAt = Nil
        THEN LET age == today - line.CreatedAt
                 s == [counted EXCEPT !.survivingLines = @ + 1]
             IN  IF age > 0
                 THEN LET a == [s EXCEPT !.lifetimes = Append(@, age)]
                          b == IF a.oldestLine = Nil \/ age > a.oldestAge
                               THEN [a EXCEPT !.oldestLine = Ptr(line), !.oldestAge = age]
                               ELSE a
                      IN  IF b.newestLine = Nil \/ age < b.newestAge
                          THEN [b EXCEPT !.newestLine = Ptr(line), !.newestAge = age]
                          ELSE b
                 ELSE s
        ELSE LET lifetime == Deref(line.DeletedAt) - line.CreatedAt
             IN  IF lifetime > 0
                 THEN [counted EXCEPT !.lifetimes = Append(@, lifetime)]
                 ELSE counted

RECURSIVE ScanLines(_, _, _, _, _)
ScanLines(acc, lines, order, i, today) ==
    IF i > Len(order) THEN acc
    ELSE ScanLines(ScanLine(acc, lines[order[i]], today), lines, order, i + 1, today)

ScanStart ==
    [lifetimes |-> <<>>, totalLines |-> 0, survivingLines |-> 0,
     oldestLine |-> Nil, newestLine |-> Nil, oldestAge |-> 0, newestAge |-> 0]

(* Survived with the comparison turned around *)
SurvivedUpTo(lifetimes, maxAge, i) ==
    Cardinality({j \in DOMAIN lifetimes : lifetimes[j] * timePoints <= maxAge * i})

(* survived at sample i: the lifetimes >= maxAge * i / timePoints *)
Survived(lifetimes, maxAge, i) ==
    Cardinality({j \in DOMAIN lifetimes : lifetimes[j] * timePoints >= maxAge * i})

(* a rate survived/len(lifetimes) is kept as the pair <<survived, len>> *)
SurvivalRateOf(lifetimes) ==
    LET maxAge == lifetimes[Len(lifetimes)]
    IN  [k \in 1 .. timePoints |-> <<Survived(lifetimes, maxAge, k - 1), Len(lifetimes)>>]

AtMostHalf(rate) == 2 * rate[1] <= rate[2]

(* the loop that looks for the first rate <= 0.5, and the fallback *)
HalfLifeOf(lifetimes, survivalRate) ==
    LET maxAge == lifetimes[Len(lifetimes)]
        hits == {k \in DOMAIN survivalRate : AtMostHalf(survivalRate[k])}
        first == CHOOSE k \in hits : \A h \in hits : k <= h
        halfLife == IF hits = {} THEN 0 ELSE maxAge * (first - 1)
    IN  IF halfLife = 0 THEN Days(lifetimes[(Len(lifetimes) \div 2) + 1]) ELSE halfLife

MedianAgeOf(lifetimes) == Days(lifetimes[(Len(lifetimes) \div 2) + 1])

Digits == <<"0", "1", "2", "3", "4", "5", "6", "7", "8", "9">>
Itoa(n) == Digits[n + 1]

(* the validation samples; order2 is the order of the second range loop *)
SamplesOf(acc, lines, order2) ==
    LET survivingSlice == SelectSeq([i \in DOMAIN order2 |-> lines[order2[i]]],
                                    LAMBDA l : l.DeletedAt = Nil)
        n == Len(survivingSlice)
        labels == IF n > 5 THEN {"sample_" \o Itoa(i) : i \in 0 .. 4} ELSE {}
    IN  [label \in {"oldest", "newest"} \cup labels |->
            IF label = "oldest" THEN acc.oldestLine
            ELSE IF label = "newest" THEN acc.newestLine
            ELSE LET i == CHOOSE i \in 0 .. 4 : label = "sample_" \o Itoa(i)
                 IN  Ptr(survivingSlice[((i * n) \div 5) + 1])]

StatsOf(acc, sorted) ==
    LET survivalRate == SurvivalRateOf(sorted)
    IN  [HalfLife |-> HalfLifeOf(sorted, survivalRate),
         TotalLines |-> acc.totalLines,
         MedianAge |-> MedianAgeOf(sorted),
         SurvivalRate |-> survivalRate,
         OldestLine |-> Deref(acc.oldestLine).Content,
         OldestLineAge |-> Days(acc.oldestAge),
         NewestLine |-> Deref(acc.newestLine).Content,
         NewestLineAge |-> Days(acc.newestAge),
         DeletedLines |-> acc.totalLines - acc.survivingLines,
         SurvivingLines |-> acc.survivingLines,
         FirstCommit |-> commits[1],
         LastCommit |-> commits[Len(commits)]]

(* the outcome of the statistics: "panic" is the nil dereference of *)
(* oldestLine.Content                                               *)
ValidateOutcome(acc) ==
    IF Len(acc.lifetimes) = 0 THEN "failed"
    ELSE IF acc.oldestLine = Nil \/ acc.newestLine = Nil THEN "panic"
    ELSE "done"

ValidateResult(acc, order2) ==
    IF ValidateOutcome(acc) = "failed" THEN Failed("no valid lifetimes found")
    ELSE IF ValidateOutcome(acc) = "panic" THEN NoResult
    ELSE LET st == StatsOf(acc, Sorted(acc.lifetimes))
         IN  IF ~validateMode THEN Returned([Stats |-> st])
             ELSE Returned([Stats |-> st,
                            Samples |-> SamplesOf(acc, codeLines, order2),
                            Timeline |-> timeline])

(* lines 234-346: today is time.Now(), order and order2 the orders in which *)
(* the two range loops see the map                                        *)
Analyze(today, order, order2) ==
    /\ program = "validate"
    /\ pc = "log"
    /\ LET acc == ScanLines(ScanStart, codeLines, order, 1, today)
       IN  /\ pc' = ValidateOutcome(acc)
           /\ result' = ValidateResult(acc, order2)
    /\ now' = Ptr(today)
    /\ UNCHANGED <<commits, chunkNo, codeLines, timeline, rerun, unreadable, lineKeys>>
    /\ UnchangedMain /\ UnchangedArgs

----------------------------------------------------------------------------
(* main.go: analyzeRepository, the replay *)

lineNum == 1

(* the file filter of main.go *)
MatchesSuffix(path, pattern) == HasSuffix(path, TrimPrefix(pattern, "*"))

(* fmt.Sprintf("%s:%d:%s", to.Path(), lineNum, line) *)
LineHistoryKey(path, n, line) == path \o ":" \o Itoa(n) \o ":" \o line

ChangeEvent(when, type, value) ==
    [Timestamp |-> when, Type |-> type, NewValue |-> value, Distance |-> 0]

NewLineHistory(path, line, when) ==
    [File |-> path, Line |-> line, Changes |-> <<ChangeEvent(when, "Created", line)>>,
     FirstSeen |-> when, LastSeen |-> when, DeletedAt |-> Nil]

(* h = lineHistories; c = [Path, When] *)

(* one line of a diff.Add chunk *)
MainAddLine(h, c, line) ==
    IF Len(TrimSpace(line)) = 0 THEN h
    ELSE LET key == LineHistoryKey(c.Path, lineNum, line)
         IN  IF key \notin DOMAIN h
             THEN Put(h, key, NewLineHistory(c.Path, line, c.When))
             ELSE h

(* MainDeleteLine with the time written to the wrong field *)
MainDeleteLineWrongField(h, c, line) ==
    IF Len(TrimSpace(line)) = 0 THEN h
    ELSE LET key == LineHistoryKey(c.Path, lineNum, line)
         IN  IF key \in DOMAIN h
             THEN [h EXCEPT ![key].FirstSeen = c.When,
                            ![key].Changes = Append(@, ChangeEvent(c.When, "Deleted", ""))]
             ELSE h

(* one line of a diff.Delete chunk *)
MainDeleteLine(h, c, line) ==
    IF Len(TrimSpace(line)) = 0 THEN h
    ELSE LET key == LineHistoryKey(c.Path, lineNum, line)
         IN  IF key \in DOMAIN h
             THEN [h EXCEPT ![key].DeletedAt = Ptr(c.When),
                            ![key].Changes = Append(@, ChangeEvent(c.When, "Deleted", ""))]
             ELSE h

(* one line of a diff.Equal chunk *)
MainEqualLine(h, c, line) ==
    IF Len(TrimSpace(line)) = 0 THEN h
    ELSE LET key == LineHistoryKey(c.Path, lineNum, line)
         IN  IF key \in DOMAIN h
             THEN IF h[key].DeletedAt = Nil
                  THEN [h EXCEPT ![key].LastSeen = c.When,
                                 ![key].Changes = Append(@, ChangeEvent(c.When, "Modified", line))]
                  ELSE [h EXCEPT ![key].LastSeen = c.When]
             ELSE h

MainLine(type, h, c, line) ==
    IF type = "Add" THEN MainAddLine(h, c, line)
    ELSE IF type = "Delete" THEN MainDeleteLine(h, c, line)
    ELSE MainEqualLine(h, c, line)

RECURSIVE MainLines(_, _, _, _)
MainLines(type, h, c, lines) ==
    IF Len(lines) = 0 THEN h
    ELSE MainLines(type, MainLine(type, h, c, Head(lines)), c, Tail(lines))

(* the events of one type in all histories *)
RECURSIVE CountEvents(_, _, _)
CountEvents(h, keys, type) ==
    IF keys = {} THEN 0
    ELSE LET k == CHOOSE k \in keys : TRUE
         IN  Len(SelectSeq(h[k].Changes, LAMBDA e : e.Type = type))
             + CountEvents(h, keys \ {k}, type)

(* lines 304-316: changeFrequency[type]++ for every event of every history *)
Tally(freq, h) ==
    LET add(type) == CountEvents(h, DOMAIN h, type)
        old(type) == IF type \in DOMAIN freq THEN freq[type] ELSE 0
        touched == {type \in {"Created", "Modified", "Deleted"} : add(type) > 0}
    IN  [type \in DOMAIN freq \cup touched |-> old(type) + add(type)]

UnchangedValidate == UNCHANGED <<codeLines, timeline>>

(* lines 193-219 read the tree and the patch of the commit and change no *)
(* history: the lines of the tree are only counted into totalLines, which *)
(* nothing reads                                                          *)
MainCommitApply(when, numParents, tree, readable) == lineHistories

(* one call of the commitIter.ForEach callback up to the patch; the log is *)
(* newest first and ends with the commit that has no parent                *)
MainCommit(when, numParents, tree, readable) ==
    /\ program = "main"
    /\ pc = "log"
    /\ Len(commits) < MaxCommits
    /\ Len(commits) + 1 = MaxCommits => numParents = 0
    /\ commits' = Append(commits, when)
    /\ pc' = IF numParents = 0 THEN "end"
             ELSE IF readable THEN "patch" ELSE "log"
    /\ lineHistories' = MainCommitApply(when, numParents, tree, readable)
    /\ changeFrequency' = IF numParents = 0 /\ readable
                          THEN Tally(changeFrequency, lineHistories')
                          ELSE changeFrequency
    /\ UNCHANGED <<chunkNo, now, result, rerun, lineKeys>>
    /\ unreadable' = IF readable THEN unreadable ELSE unreadable \cup {Len(commits) + 1}
    /\ UnchangedValidate /\ UnchangedArgs

(* what one chunk of one FilePatch makes of lineHistories *)
MainApply(type, files, content) ==
    LET to == files[2]
        skip == to = Nil \/ ~MatchesSuffix(Deref(to), filePattern)
    IN  IF skip THEN lineHistories
        ELSE MainLines(type, lineHistories, [Path |-> Deref(to), When |-> When],
                       Split(content, "\n"))

(* one chunk of one FilePatch of the patch *)
MainChunk(type, files, content) ==
    /\ program = "main"
    /\ pc = "patch"
    /\ chunkNo < MaxChunks
    /\ chunkNo' = chunkNo + 1
    /\ lineHistories' = MainApply(type, files, content)
    /\ UNCHANGED <<pc, commits, changeFrequency, now, result, rerun, unreadable, lineKeys>>
    /\ UnchangedValidate /\ UnchangedArgs

MainAddChunk(files, content) == MainChunk("Add", files, content)
MainDeleteChunk(files, content) == MainChunk("Delete", files, content)
MainEqualChunk(files, content) == MainChunk("Equal", files, content)

(* the end of the loops over the FilePatches, and the tally after them *)
MainEndPatch ==
    /\ program = "main"
    /\ pc = "patch"
    /\ pc' = "log"
    /\ changeFrequency' = Tally(changeFrequency, lineHistories)
    /\ UNCHANGED <<commits, chunkNo, lineHistories, now, result, rerun, unreadable, lineKeys>>
    /\ UnchangedValidate /\ UnchangedArgs

----------------------------------------------------------------------------
(* main.go: calculateStats and calculateSurvivalRate *)

(* Lifetimes of the returned statistics are counted in half days, in which *)
(* the median of an even number of whole days is a whole number.          *)
HalfDays(d) == 2 * d

(* math.Log(2) in millionths, rounded down *)
Log2Micro == 693147

RECURSIVE Sum(_)
Sum(s) == IF Len(s) = 0 THEN 0 ELSE Head(s) + Sum(Tail(s))

(* the lifetime of one history, in days *)
LifetimeOf(history, today) ==
    LET endTime == IF history.DeletedAt # Nil THEN Deref(history.DeletedAt) ELSE today
    IN  endTime - history.FirstSeen

(* lines 59-68: the lifetimes >= 0, in the order the map is ranged over *)
RECURSIVE Lifetimes(_, _, _, _)
Lifetimes(h, order, i, today) ==
    IF i > Len(order) THEN <<>>
    ELSE LET lifetime == LifetimeOf(h[order[i]], today)
         IN  (IF lifetime >= 0 THEN <<lifetime>> ELSE <<>>)
             \o Lifetimes(h, order, i + 1, today)

(* MedianOf without the division of the sum of the two middle values *)
MedianOfNoHalving(lifetimes) ==
    LET n == Len(lifetimes)
    IN  IF n % 2 = 0
        THEN HalfDays(lifetimes[n \div 2] + lifetimes[(n \div 2) + 1])
        ELSE HalfDays(lifetimes[(n \div 2) + 1])

(* lines 91-97, in half days *)
MedianOf(lifetimes) ==
    LET n == Len(lifetimes)
    IN  IF n % 2 = 0
        THEN lifetimes[n \div 2] + lifetimes[(n \div 2) + 1]
        ELSE HalfDays(lifetimes[(n \div 2) + 1])

ZeroStats ==
    [MedianLifetime |-> 0, MeanLifetime |-> <<0, 1>>, Variance |-> <<0, 1>>,
     HalfLife |-> 0, TotalLinesTracked |-> 0, LinesWithChanges |-> 0,
     OldestCode |-> 0, NewestCode |-> 0]

(* MeanLifetime is the pair <<sum, count>>; Variance, the square of        *)
(* StdDevLifetime, is the pair <<count * sum of squares - sum^2, count^2>>; *)
(* HalfLife is in millionths of a half day                                *)
calculateStats(h, order, today) ==
    LET unsorted == Lifetimes(h, order, 1, today)
        lifetimes == Sorted(unsorted)
        n == Len(lifetimes)
        sum == Sum(lifetimes)
        squares == Sum([i \in DOMAIN lifetimes |-> lifetimes[i] * lifetimes[i]])
        median == MedianOf(lifetimes)
    IN  IF n = 0 THEN ZeroStats
        ELSE [MedianLifetime |-> median,
              MeanLifetime |-> <<sum, n>>,
              Variance |-> <<n * squares - sum * sum, n * n>>,
              HalfLife |-> median * Log2Micro,
              TotalLinesTracked |-> Cardinality(DOMAIN h),
              LinesWithChanges |-> n,
              OldestCode |-> HalfDays(lifetimes[n]),
              NewestCode |-> HalfDays(lifetimes[1])]

(* alive at age t: lines 133-139 *)
Alive(h, t, today) ==
    Cardinality({k \in DOMAIN h :
        /\ today - h[k].FirstSeen >= t
        /\ \/ h[k].DeletedAt = Nil
           \/ Deref(h[k].DeletedAt) - h[k].FirstSeen > t})

(* map[int]float64: day -> <<alive, len(histories)>> *)
calculateSurvivalRate(h, today) ==
    LET timePointSet == {LifetimeOf(h[k], today) : k \in {x \in DOMAIN h : LifetimeOf(h[x], today) >= 0}}
    IN  [at \in timePointSet |-> <<Alive(h, at, today), Cardinality(DOMAIN h)>>]

(* len(strings.Split(contents, "\n")) over the matching files of HEAD *)
RECURSIVE CountTreeLines(_, _, _)
CountTreeLines(tree, pattern, i) ==
    IF i > Len(tree) THEN 0
    ELSE (IF tree[i].Present /\ MatchesSuffix(PathOrder[i], pattern) /\ tree[i].Readable
          THEN Len(Split(tree[i].Contents, "\n")) ELSE 0)
         + CountTreeLines(tree, pattern, i + 1)

MainResult(today, order, head) ==
    Returned([Stats |-> [calculateStats(lineHistories, order, today) EXCEPT
                            !.TotalLinesTracked = CountTreeLines(head, filePattern, 1)],
              SurvivalRate |-> calculateSurvivalRate(lineHistories, today),
              ChangeFrequency |-> changeFrequency])

(* lines 324-335; head is the tree of HEAD, which lines 171-189 count before *)
(* the replay and nothing else reads                                        *)
MainAnalyze(today, order, head) ==
    /\ program = "main"
    /\ pc = "end"
    /\ pc' = "done"
    /\ now' = Ptr(today)
    /\ result' = MainResult(today, order, head)
    /\ UNCHANGED <<commits, chunkNo, lineHistories, changeFrequency, rerun, unreadable, lineKeys>>
    /\ UnchangedValidate /\ UnchangedArgs

----------------------------------------------------------------------------
(* The order of the replay.  log is what repo.Log hands out, newest first. *)

(* part_001, lines 98-102: the loop that swaps commits[i] and commits[opp] *)
RECURSIVE ReverseFrom(_, _)
ReverseFrom(c, i) ==
    IF i < 0 THEN c
    ELSE LET opp == Len(c) - 1 - i
         IN  ReverseFrom([c EXCEPT ![i + 1] = c[opp + 1], ![opp + 1] = c[i + 1]], i - 1)

ReverseCommits(c) == ReverseFrom(c, (Len(c) \div 2) - 1)

(* the order in which the commits of a log are processed: part_001 ranges *)
(* over the reversed slice, main.go processes them inside commitIter.ForEach *)
ReplayOrder(log) == IF program = "main" THEN log ELSE ReverseCommits(log)

----------------------------------------------------------------------------
(* The identity key on its own: the key of a line of a file, for paths and *)
(* lines that may hold the separator.                                      *)

KeyPaths == {"a", "a:b", "a:1"}
KeyLines == {"c", "b:c", "1:c"}

(* key := fmt.Sprintf(...), as the replay builds it for a line of a file *)
IdentifyLine(path, line) ==
    /\ Len(lineKeys) < MaxKeys
    /\ lineKeys' = Append(lineKeys, [Path |-> path, Line |-> line,
                                     Key |-> IF program = "main"
                                             THEN LineHistoryKey(path, lineNum, line)
                                             ELSE CodeLineKey(path, line)])
    /\ UNCHANGED <<pc, commits, chunkNo, codeLines, timeline, now, result, rerun, unreadable>>
    /\ UnchangedMain /\ UnchangedArgs

----------------------------------------------------------------------------
(* A second run of part_001 over the same repository at the same time: the *)
(* replay is a function of the commits, so the map is the same, and only   *)
(* the orders in which the range loops see it may differ.                  *)

Nows == MaxTime .. MaxTime + 1

ValidateAgain(order, order2) ==
    /\ program = "validate"
    /\ pc = "done"
    /\ rerun = Nil
    /\ rerun' = Ptr(ValidateResult(ScanLines(ScanStart, codeLines, order, 1, Deref(now)), order2))
    /\ UNCHANGED <<pc, commits, chunkNo, codeLines, timeline, now, result, unreadable, lineKeys>>
    /\ UnchangedMain /\ UnchangedArgs

----------------------------------------------------------------------------

Start(programs, modes) ==
    /\ program \in programs
    /\ filePattern \in Patterns
    /\ validateMode \in modes
    /\ pc = "log"
    /\ commits = <<>>
    /\ chunkNo = 0
    /\ codeLines = EmptyMap
    /\ timeline = <<>>
    /\ lineHistories = EmptyMap
    /\ changeFrequency = EmptyMap
    /\ now = Nil
    /\ result = NoResult
    /\ rerun = Nil
    /\ unreadable = {}
    /\ lineKeys = <<>>

(* either program, part_001 without -validate *)
Init == Start({"main", "validate"}, {FALSE})

(* part_001 with -validate *)
InitValidation == Start({"validate"}, {TRUE})

(* part_001 with or without -validate *)
InitTwice == Start({"validate"}, BOOLEAN)

NextValidate ==
    \/ \E when \in Times, tree \in Trees, readable \in BOOLEAN : FirstCommit(when, tree, readable)
    \/ \E when \in Times, readable \in BOOLEAN : NextCommit(when, readable)
    \/ \E files \in FilePairs, content \in Contents : AddChunk(files, content)
    \/ \E files \in FilePairs, content \in Contents : DeleteChunk(files, content)
    \/ \E files \in FilePairs, content \in Contents : EqualChunk(files, content)
    \/ EndPatch
    \/ \E today \in Nows, order \in Orders(codeLines), order2 \in Orders(codeLines) :
          Analyze(today, order, order2)

NextMain ==
    \/ \E when \in Times, numParents \in 0 .. 1, tree \in Trees, readable \in BOOLEAN :
          MainCommit(when, numParents, tree, readable)
    \/ \E files \in FilePairs, content \in Contents : MainAddChunk(files, content)
    \/ \E files \in FilePairs, content \in Contents : MainDeleteChunk(files, content)
    \/ \E files \in FilePairs, content \in Contents : MainEqualChunk(files, content)
    \/ MainEndPatch
    \/ \E today \in Nows, order \in Orders(lineHistories), head \in Trees :
          MainAnalyze(today, order, head)

Next == NextValidate \/ NextMain

Again == \E order \in Orders(codeLines), order2 \in Orders(codeLines) : ValidateAgain(order, order2)

(* either program, run once *)
Spec == Init /\ [][Next]_vars

(* part_001, with or without -validate, run once and then once more *)
SpecTwice == InitTwice /\ [][NextValidate \/ Again]_vars

(* part_001 in validation mode *)
SpecValidation == InitValidation /\ [][NextValidate]_vars

NextKeys == \E path \in KeyPaths, line \in KeyLines : IdentifyLine(path, line)

(* either program, building keys only *)
SpecKeys == Init /\ [][NextKeys]_vars

----------------------------------------------------------------------------
(* The two programs seen alike: the record of a key as the specification   *)
(* names its fields.  main.go keeps no origin commit.                      *)

ViewValidate(cl) ==
    [k \in DOMAIN cl |->
        [createdAt |-> cl[k].CreatedAt, lastSeenAt |-> cl[k].LastSeen,
         deletedAt |-> cl[k].DeletedAt, origin |-> cl[k].CommitHash]]

ViewMain(h) ==
    [k \in DOMAIN h |->
        [createdAt |-> h[k].FirstSeen, lastSeenAt |-> h[k].LastSeen,
         deletedAt |-> h[k].DeletedAt, origin |-> 0]]

Raw == IF program = "main" THEN lineHistories ELSE codeLines
Tracked == IF program = "main" THEN ViewMain(lineHistories) ELSE ViewValidate(codeLines)

(* the map after a chunk is applied in the current state *)
RawAfter(type, files, content) ==
    IF program = "main" THEN MainApply(type, files, content)
    ELSE ValidateApply(type, files, content).codeLines

After(type, files, content) ==
    IF program = "main" THEN ViewMain(MainApply(type, files, content))
    ELSE ViewValidate(ValidateApply(type, files, content).codeLines)

(* the file a chunk is filed under, and whether the chunk reaches the switch *)
ChunkFile(files) ==
    IF program = "main" THEN files[2] ELSE PatchPath(files[1], files[2])

Reaches(files) ==
    /\ ChunkFile(files) # Nil
    /\ IF program = "main" THEN MatchesSuffix(Deref(ChunkFile(files)), filePattern)
       ELSE matchesPattern(Deref(ChunkFile(files)), filePattern)

KeyOf(path, line) ==
    IF program = "main" THEN LineHistoryKey(path, lineNum, line) ELSE CodeLineKey(path, line)

NonBlank(content) ==
    LET lines == Split(content, "\n")
    IN  {lines[i] : i \in {j \in DOMAIN lines : TrimSpace(lines[j]) # ""}}

(* the keys a chunk names *)
Named(files, content) == {KeyOf(Deref(ChunkFile(files)), line) : line \in NonBlank(content)}

NonDecreasing(s) == \A i, j \in DOMAIN s : i <= j => s[i] <= s[j]

----------------------------------------------------------------------------
(* C1: an added chunk creates exactly one record, with createdAt =        *)
(* lastSeenAt = the commit's time, for every non-blank line whose key has *)
(* no record; for a line whose key has an open record it creates nothing, *)
(* keeps createdAt and the origin commit, and sets lastSeenAt to the      *)
(* commit's time.                                                         *)
C1_AddedChunk ==
    pc = "patch" =>
        \A files \in FilePairs, content \in Contents :
            Reaches(files) =>
                LET after == After("Add", files, content)
                    named == Named(files, content)
                IN  /\ DOMAIN after = DOMAIN Tracked \cup named
                    /\ \A k \in named \ DOMAIN Tracked :
                          after[k].createdAt = When /\ after[k].lastSeenAt = When
                    /\ \A k \in named \cap DOMAIN Tracked :
                          Tracked[k].deletedAt = Nil =>
                              /\ after[k].createdAt = Tracked[k].createdAt
                              /\ after[k].origin = Tracked[k].origin
                              /\ after[k].lastSeenAt = When

(* C2: a deleted chunk changes only the records of the keys it names: an  *)
(* open record of a named key gets deletedAt = the commit's time and      *)
(* keeps createdAt; no record is added or removed; every other record is  *)
(* as it was; and when no named key has a record, the map (and the        *)
(* timeline) are exactly as they were.  The step has no failing outcome.  *)
C2_DeletedChunk ==
    pc = "patch" =>
        \A files \in FilePairs, content \in Contents :
            LET rawAfter == RawAfter("Delete", files, content)
                after == After("Delete", files, content)
            IN  IF ~Reaches(files) THEN rawAfter = Raw
                ELSE LET named == Named(files, content)
                     IN  /\ DOMAIN rawAfter = DOMAIN Raw
                         /\ \A k \in DOMAIN Raw \ named : rawAfter[k] = Raw[k]
                         /\ \A k \in named \cap DOMAIN Raw :
                               Tracked[k].deletedAt = Nil =>
                                   /\ after[k].deletedAt = Ptr(When)
                                   /\ after[k].createdAt = Tracked[k].createdAt
                         /\ named \cap DOMAIN Raw = {} =>
                               /\ rawAfter = Raw
                               /\ program = "validate" =>
                                     ValidateApply("Delete", files, content).timeline = timeline

(* a deleted chunk has just closed a record that an earlier commit created *)
C2_Witness ==
    /\ pc = "patch"
    /\ chunkNo > 0
    /\ \E k \in DOMAIN Tracked :
          /\ Tracked[k].deletedAt = Ptr(When)
          /\ Tracked[k].createdAt < When
          /\ \A i \in 1 .. Len(commits) - 1 : commits[i] < When

(* C3: an added chunk that names the key of a record deleted by an earlier *)
(* commit leaves a record that is open and has createdAt = the time of the *)
(* re-adding commit.                                                       *)
C3_ReAdded ==
    pc = "patch" =>
        \A files \in FilePairs, content \in Contents :
            Reaches(files) =>
                LET after == After("Add", files, content)
                IN  \A k \in Named(files, content) \cap DOMAIN Tracked :
                        (Tracked[k].deletedAt # Nil /\ Deref(Tracked[k].deletedAt) < When) =>
                            /\ after[k].deletedAt = Nil
                            /\ after[k].createdAt = When

(* the Deleted events of a history are at most one, and that one is last *)
DeletedOnceAndLast(changes) ==
    \A i \in DOMAIN changes : changes[i].Type = "Deleted" => i = Len(changes)

(* C4: a record is closed at most once: a deleted chunk that names a      *)
(* closed record leaves the record (and the timeline) as they were, and a *)
(* history holds at most one Deleted event, which is its last event.      *)
C4_ClosedOnce ==
    /\ pc = "patch" =>
          \A files \in FilePairs, content \in Contents :
              Reaches(files) =>
                  \A k \in Named(files, content) \cap DOMAIN Raw :
                      Tracked[k].deletedAt # Nil =>
                          /\ RawAfter("Delete", files, content)[k] = Raw[k]
                          /\ (program = "validate" /\ Cardinality(Named(files, content)) = 1) =>
                                ValidateApply("Delete", files, content).timeline = timeline
    /\ \A k \in DOMAIN lineHistories : DeletedOnceAndLast(lineHistories[k].Changes)

Freq(f, type) == IF type \in DOMAIN f THEN f[type] ELSE 0

(* C5: in the statistics main.go returns, changeFrequency holds one       *)
(* Created for every tracked record, however many commits were replayed   *)
(* after the record was created, and at most one Deleted for every record. *)
C5_CreatedTally ==
    (program = "main" /\ pc = "done") =>
        LET f == Deref(result.Value).ChangeFrequency
        IN  /\ Freq(f, "Created") = Cardinality(DOMAIN lineHistories)
            /\ Freq(f, "Deleted") <= Cardinality(DOMAIN lineHistories)

MatchesFilter(path) ==
    IF program = "main" THEN MatchesSuffix(path, filePattern)
    ELSE matchesPattern(path, filePattern)

(* the first commit of the log, a commit without parents, is processed *)
FirstCommitStep(when, tree) ==
    /\ Len(commits) = 0
    /\ FirstCommit(when, tree, TRUE) \/ MainCommit(when, 0, tree, TRUE)

(* every non-blank line of the matching files of the tree has a record *)
(* in map m, created at the time when and not deleted                  *)
AllRecorded(m, when, tree) ==
    \A i \in DOMAIN tree :
        (tree[i].Present /\ tree[i].Readable /\ MatchesFilter(PathOrder[i])) =>
            \A line \in NonBlank(tree[i].Contents) :
                LET k == KeyOf(PathOrder[i], line)
                IN  /\ k \in DOMAIN m
                    /\ m[k].createdAt = when
                    /\ m[k].deletedAt = Nil

(* C6: after the first commit is processed, every non-blank line of every *)
(* readable file of its tree that matches the pattern has a record with   *)
(* createdAt = the commit's time and no deletedAt, and no patch is read.  *)
C6_FirstCommit ==
    [][\A when \in Times, tree \in Trees :
          FirstCommitStep(when, tree) =>
              (AllRecorded(Tracked', when, tree) /\ pc' # "patch")]_vars

(* C7: while the commits were replayed in non-decreasing order of time,   *)
(* every record has createdAt <= lastSeenAt, and a record with deletedAt  *)
(* has createdAt <= deletedAt and no lastSeenAt after deletedAt.          *)
C7_Ordered ==
    NonDecreasing(commits) =>
        \A k \in DOMAIN Tracked :
            /\ Tracked[k].createdAt <= Tracked[k].lastSeenAt
            /\ Tracked[k].deletedAt # Nil =>
                    /\ Tracked[k].createdAt <= Deref(Tracked[k].deletedAt)
                    /\ Tracked[k].lastSeenAt <= Deref(Tracked[k].deletedAt)

(* C8: a second run over the same commits at the same time returns what *)
(* the first run returned.                                              *)
C8_Deterministic == rerun # Nil => Deref(rerun) = result

(* the lifetime of a tracked record at the time of the statistics, in days *)
LifetimeAt(r, today) ==
    (IF r.deletedAt # Nil THEN Deref(r.deletedAt) ELSE today) - r.createdAt

(* the records whose lifetime is sampled: main.go takes the lifetimes >= 0, *)
(* part_001 the lifetimes > 0                                               *)
Sampled(today) ==
    {k \in DOMAIN Tracked :
        IF program = "main" THEN LifetimeAt(Tracked[k], today) >= 0
        ELSE LifetimeAt(Tracked[k], today) > 0}

(* C9: the statistics end in one of two ways: with the error "no valid    *)
(* lifetimes found" and no report when the lifetime sample is empty, and  *)
(* with a report and no error when it is not.                             *)
C9_OneFailure ==
    now # Nil =>
        IF Sampled(Deref(now)) = {}
        THEN pc = "failed" /\ result = Failed("no valid lifetimes found")
        ELSE pc = "done" /\ result.Value # Nil /\ result.Err = Nil

(* the reported median and the unit it is in, as a fraction of a day *)
ReportedMedian ==
    IF program = "main" THEN Deref(result.Value).Stats.MedianLifetime
    ELSE Deref(result.Value).Stats.MedianAge

UnitsPerDay == IF program = "main" THEN HalfDays(1) ELSE Days(1)

Within(days) ==
    /\ \E d \in days : d * UnitsPerDay <= ReportedMedian
    /\ \E d \in days : ReportedMedian <= d * UnitsPerDay

(* the sampled ages of the records that are not deleted *)
SurvivingAges(today) ==
    {LifetimeAt(Tracked[k], today) : k \in {x \in Sampled(today) : Tracked[x].deletedAt = Nil}}

SampledLifetimes(today) == {LifetimeAt(Tracked[k], today) : k \in Sampled(today)}

(* C10 as claimed: the reported median lies between the smallest and the *)
(* largest age of the surviving records.                                 *)
C10_MedianInSurvivingRange ==
    (pc = "done" /\ Sampled(Deref(now)) # {}) => Within(SurvivingAges(Deref(now)))

(* C10 as amended: the reported median lies between the smallest and the *)
(* largest lifetime of the sample, deleted records included.             *)
C10_MedianInSampleRange ==
    (pc = "done" /\ Sampled(Deref(now)) # {}) => Within(SampledLifetimes(Deref(now)))

(* statistics of a sample that holds a surviving and a deleted record, *)
(* with the median outside the ages of the surviving records           *)
C10_Witness ==
    /\ pc = "done"
    /\ \E k \in Sampled(Deref(now)) : Tracked[k].deletedAt # Nil
    /\ SurvivingAges(Deref(now)) # {}
    /\ ~Within(SurvivingAges(Deref(now)))

----------------------------------------------------------------------------
(* the reported half-life, in the unit it is kept in: part_001 in units of *)
(* 1/timePoints day, main.go in millionths of a half day                   *)
ReportedHalfLife == Deref(result.Value).Stats.HalfLife

HalfLifeUnitsPerMedianUnit == IF program = "main" THEN 1000000 ELSE 1

(* the reported survival curve as a set of <<sampled age, fraction>>, the *)
(* age in the unit of the half-life and the fraction as <<count, total>>  *)
CurvePoints ==
    IF program = "main"
    THEN LET rate == Deref(result.Value).SurvivalRate
         IN  {<<HalfDays(at) * 1000000, rate[at]>> : at \in DOMAIN rate}
    ELSE LET rate == Deref(result.Value).Stats.SurvivalRate
             maxAge == CHOOSE a \in SampledLifetimes(Deref(now)) :
                           \A b \in SampledLifetimes(Deref(now)) : b <= a
         IN  {<<maxAge * (k - 1), rate[k]>> : k \in DOMAIN rate}

HalfOrLess(fraction) == 2 * fraction[1] <= fraction[2]

(* C11: the half-life is the smallest sampled age of the survival curve   *)
(* at which the fraction is <= 0.5, and the reported median when no       *)
(* sampled age has such a fraction.                                       *)
C11_HalfLifeFromCurve ==
    (pc = "done" /\ Sampled(Deref(now)) # {}) =>
        LET hits == {p \in CurvePoints : HalfOrLess(p[2])}
        IN  IF hits # {}
            THEN \E p \in hits : /\ ReportedHalfLife = p[1]
                                 /\ \A q \in hits : p[1] <= q[1]
            ELSE ReportedHalfLife = ReportedMedian * HalfLifeUnitsPerMedianUnit

(* a fraction a is at most a fraction b *)
FractionLeq(a, b) == a[1] * b[2] <= b[1] * a[2]

(* C12: the survival curve does not rise: of two sampled ages, the larger *)
(* has a fraction that is at most the fraction of the smaller.            *)
C12_Monotone ==
    (pc = "done" /\ Sampled(Deref(now)) # {}) =>
        \A p, q \in CurvePoints : p[1] < q[1] => FractionLeq(q[2], p[2])

(* statistics with a survival curve that falls somewhere *)
C12_Witness ==
    /\ pc = "done"
    /\ Sampled(Deref(now)) # {}
    /\ \E p, q \in CurvePoints :
          p[1] < q[1] /\ FractionLeq(q[2], p[2]) /\ ~FractionLeq(p[2], q[2])

(* C13: a record created by the first commit and named by an unchanged     *)
(* chunk of the second commit has lastSeenAt = the second commit's time    *)
(* and is otherwise as it was; deleted by the third commit, its lifetime   *)
(* is the third commit's time minus the first's, whatever the time of the  *)
(* statistics.                                                             *)
C13_ScenarioC ==
    (pc = "patch" /\ Len(commits) >= 2 /\ NonDecreasing(commits)) =>
        \A files \in FilePairs, content \in Contents :
            Reaches(files) =>
                \A k \in Named(files, content) \cap DOMAIN Tracked :
                    (Tracked[k].deletedAt = Nil /\ Tracked[k].createdAt = commits[1]) =>
                        /\ Len(commits) = 2 =>
                              LET after == After("Equal", files, content)[k]
                              IN  /\ after.lastSeenAt = When
                                  /\ after.createdAt = commits[1]
                                  /\ after.deletedAt = Nil
                        /\ Len(commits) = 3 =>
                              \A today \in Nows :
                                  LifetimeAt(After("Delete", files, content)[k], today)
                                      = When - commits[1]

(* a tree with a non-blank line in a readable file that matches the pattern *)
HasTrackable(tree) ==
    \E i \in DOMAIN tree :
        /\ tree[i].Present /\ tree[i].Readable /\ MatchesFilter(PathOrder[i])
        /\ NonBlank(tree[i].Contents) # {}

(* the statistics step of a history of one commit that added lines, taken *)
(* after the commit's time; head is the tree of that commit, which main.go *)
(* reads as the tree of HEAD                                               *)
SingleCommitStats(today, head) ==
    /\ Len(commits) = 1
    /\ commits[1] < today
    /\ IF program = "main"
       THEN /\ HasTrackable(head)
            /\ \E order \in Orders(lineHistories) : MainAnalyze(today, order, head)
       ELSE /\ DOMAIN codeLines # {}
            /\ \E order \in Orders(codeLines), order2 \in Orders(codeLines) :
                  Analyze(today, order, order2)

(* what the claim says such statistics are *)
SingleCommitReport(today) ==
    /\ pc = "done"
    /\ DOMAIN Tracked # {}
    /\ Sampled(today) = DOMAIN Tracked
    /\ \A k \in DOMAIN Tracked :
          /\ Tracked[k].deletedAt = Nil
          /\ LifetimeAt(Tracked[k], today) = today - commits[1]
    /\ program = "validate" => Deref(result.Value).Stats.DeletedLines = 0
    /\ \A p \in CurvePoints : ~HalfOrLess(p[2])
    /\ ReportedHalfLife = ReportedMedian * HalfLifeUnitsPerMedianUnit

(* C14: the statistics of a history of one commit that adds a non-blank   *)
(* line, taken after the commit: no line is deleted, every sampled        *)
(* fraction is above 0.5, the half-life is the median, and every line's   *)
(* lifetime is the time of the statistics minus the commit's time.        *)
C14_SingleCommit ==
    [][\A today \in Nows, head \in Trees :
          SingleCommitStats(today, head) => SingleCommitReport(today)']_vars

(* C15: with a non-empty lifetime sample the reported half-life is > 0. *)
C15_HalfLifePositive ==
    (pc = "done" /\ Sampled(Deref(now)) # {}) => ReportedHalfLife > 0

(* the lifetimes of the sampled records, in days, in ascending order *)
SampleSeq(today) ==
    LET S == Sampled(today)
        o == CHOOSE f \in [1 .. Cardinality(S) -> S] :
                 \A i, j \in DOMAIN f : i # j => f[i] # f[j]
    IN  Sorted([i \in 1 .. Cardinality(S) |-> LifetimeAt(Tracked[o[i]], today)])

(* twice the median of a sorted sequence *)
TwiceMedian(s) ==
    LET n == Len(s)
    IN  IF n % 2 = 1 THEN 2 * s[(n + 1) \div 2]
        ELSE s[n \div 2] + s[(n \div 2) + 1]

(* C16: the reported median is the middle value of the sorted lifetime    *)
(* sample when the count is odd, and the average of the two middle values *)
(* when it is even.                                                       *)
C16_Median ==
    (pc = "done" /\ Sampled(Deref(now)) # {}) =>
        2 * ReportedMedian = TwiceMedian(SampleSeq(Deref(now))) * UnitsPerDay

(* the content of a record *)
ContentOf(r) == IF program = "main" THEN r.Line ELSE r.Content

ChunkTypes == {"Add", "Delete", "Equal"}

(* the lines of a chunk that are not blank *)
Kept(content) == SelectSeq(Split(content, "\n"), LAMBDA l : TrimSpace(l) # "")

(* the timeline after a chunk; main.go keeps none *)
TimelineAfter(type, files, content) ==
    IF program = "main" THEN <<>> ELSE ValidateApply(type, files, content).timeline

(* C17: no record has blank content, and the blank lines of a chunk of    *)
(* any type do nothing: a chunk of blank lines only leaves the map, its   *)
(* events and the timeline as they were, and any other chunk does what    *)
(* the chunk of its non-blank lines does.                                 *)
C17_BlankIgnored ==
    /\ \A k \in DOMAIN Raw : TrimSpace(ContentOf(Raw[k])) # ""
    /\ pc = "patch" =>
          \A type \in ChunkTypes, files \in FilePairs, content \in Contents :
              IF Kept(content) = <<>>
              THEN /\ RawAfter(type, files, content) = Raw
                   /\ program = "validate" => TimelineAfter(type, files, content) = timeline
              ELSE /\ RawAfter(type, files, content)
                          = RawAfter(type, files, Join(Kept(content), "\n"))
                   /\ TimelineAfter(type, files, content)
                          = TimelineAfter(type, files, Join(Kept(content), "\n"))

(* chunks are being applied to a map with an open record, which a blank *)
(* line of a chunk could be taken to name                               *)
C17_Witness ==
    /\ pc = "patch"
    /\ chunkNo > 0
    /\ \E k \in DOMAIN Tracked : Tracked[k].deletedAt = Nil
    /\ \E content \in Contents : Kept(content) # <<>> /\ Len(Kept(content)) < Len(Split(content, "\n"))

(* a commit is taken from the log and its tree or patch cannot be read *)
UnreadableCommit ==
    /\ Len(commits') = Len(commits) + 1
    /\ Len(commits') \in unreadable'

Reverse(s) == [i \in 1 .. Len(s) |-> s[Len(s) + 1 - i]]

(* the newest-first log of the commits processed so far: main.go has taken  *)
(* them in the order of the log, part_001 processes its i-th commit as the *)
(* i-th from the end of the log                                            *)
Log == IF program = "main" THEN commits ELSE Reverse(commits)

(* C19: for a history in non-decreasing order of time, the commits are    *)
(* processed in the reverse of the order of the log, oldest first, so that *)
(* no record is deleted at a time before the time it was created at.      *)
C19_OldestFirst ==
    NonDecreasing(Reverse(Log)) =>
        /\ ReplayOrder(Log) = Reverse(Log)
        /\ \A k \in DOMAIN Tracked :
              Tracked[k].deletedAt # Nil =>
                  Tracked[k].createdAt <= Deref(Tracked[k].deletedAt)

(* the Modified events of a history *)
ModifiedCount(r) == Len(SelectSeq(r.Changes, LAMBDA e : e.Type = "Modified"))

(* C20: an unchanged chunk sets lastSeenAt of every open record it names *)
(* to the commit's time and adds no Modified event to it: the lines of   *)
(* an unchanged chunk are not replaced.                                  *)
C20_UnchangedChunk ==
    pc = "patch" =>
        \A files \in FilePairs, content \in Contents :
            Reaches(files) =>
                \A k \in Named(files, content) \cap DOMAIN Tracked :
                    Tracked[k].deletedAt = Nil =>
                        /\ After("Equal", files, content)[k].lastSeenAt = When
                        /\ program = "main" =>
                              ModifiedCount(MainApply("Equal", files, content)[k])
                                  = ModifiedCount(lineHistories[k])

(* the size of the lifetime sample the statistics were computed from, and *)
(* the reported total of tracked lines                                    *)
SampleSize ==
    IF program = "main" THEN Deref(result.Value).Stats.LinesWithChanges
    ELSE Deref(result.Value).Stats.SurvivalRate[1][2]

ReportedTotal ==
    IF program = "main" THEN Deref(result.Value).Stats.TotalLinesTracked
    ELSE Deref(result.Value).Stats.TotalLines

(* the records with a lifetime of zero or less at the time of the statistics *)
NonPositive(today) == {k \in DOMAIN Tracked : LifetimeAt(Tracked[k], today) <= 0}

(* C21: the lifetime sample holds the records whose lifetime, deletedAt   *)
(* (or now) minus createdAt, is above zero, and no other; a record left   *)
(* out of the sample is counted in the reported total of tracked lines.   *)
C21_PositiveLifetimes ==
    pc = "done" =>
        /\ SampleSize = Cardinality(DOMAIN Tracked \ NonPositive(Deref(now)))
        /\ NonPositive(Deref(now)) # {} => ReportedTotal = Cardinality(DOMAIN Tracked)

(* C22: two keys are equal only when they were built from the same path *)
(* and the same line.                                                   *)
C22_KeyInjective ==
    \A i, j \in DOMAIN lineKeys :
        lineKeys[i].Key = lineKeys[j].Key =>
            (lineKeys[i].Path = lineKeys[j].Path /\ lineKeys[i].Line = lineKeys[j].Line)

(* the key of the record a timeline event is about *)
EventKey(e) == CodeLineKey(e.File, e.Line)

(* the records created, and the records deleted, by the events 1 .. i *)
CreatedUpTo(i) ==
    {EventKey(timeline[j]) : j \in {x \in 1 .. i : timeline[x].Action = "create"}}

DeletedUpTo(i) ==
    {EventKey(timeline[j]) : j \in {x \in 1 .. i : timeline[x].Action = "delete"}}

(* C23: every timeline event carries the number of records tracked and   *)
(* the number of records deleted right after it, so that neither number  *)
(* falls along the timeline; and the times of the events do not fall     *)
(* when the times of the commits do not.                                 *)
C23_RunningTotals ==
    (program = "validate" /\ validateMode) =>
        /\ timeline # <<>> =>
              /\ CreatedUpTo(Len(timeline)) = DOMAIN codeLines
              /\ Cardinality(DeletedUpTo(Len(timeline))) = countDeletedLines(codeLines)
        /\ \A i \in DOMAIN timeline :
              /\ timeline[i].LinesSoFar = Cardinality(CreatedUpTo(i))
              /\ timeline[i].DeletedSoFar = Cardinality(DeletedUpTo(i))
              /\ i > 1 =>
                    /\ timeline[i - 1].LinesSoFar <= timeline[i].LinesSoFar
                    /\ timeline[i - 1].DeletedSoFar <= timeline[i].DeletedSoFar
                    /\ NonDecreasing(commits) => timeline[i - 1].Time <= timeline[i].Time

====
